---- MODULE Spec2Model ----
(***************************************************************************)
(* Model of app.py: the headline fetch-and-cache pipeline (index,          *)
(* fetch_headlines, download_image), the on-demand enrichment path         *)
(* (article, enrich_article_with_newspaper) and the shared state they      *)
(* touch (cached_articles, the image folder on disk).                      *)
(*                                                                         *)
(* The server runs with threaded=True, so every request is a thread whose  *)
(* steps interleave with the others' at each access to shared state.       *)
(*                                                                         *)
(* Values: Python None is the string NONE; text fields are strings; an     *)
(* image URL is the sequence of its pieces with the separators "." and "?" *)
(* kept as pieces of their own, so that the extension is computed by       *)
(* splitting as the code does.  An empty sequence is the falsy URL (None   *)
(* or ""), of which the code only reads the truth value.                   *)
(***************************************************************************)
EXTENDS Integers, Sequences, FiniteSets, TLC

\* ---------------------------------------------------------------- bounds
MaxPageSize == 2    \* PAGE_SIZE ranges over 0..MaxPageSize
MaxEntries  == 2    \* longest provider "articles" array
MaxRequests == 3    \* requests served in one run
MaxMirrorId == 2    \* identifiers tried by the two-call scenario of download_image

Threads == {1, 2}

\* ------------------------------------------------------------- constants
NONE == "<None>"
PARTIAL == "<partial bytes>"
PLACEHOLDER_IMAGE == "/static/images/placeholder.jpg"
LOCAL_IMG_FOLDER == "static/images/news"
SENTINEL_URL == "#"

\* Python truthiness of a str-or-None value
Truthy(v) == v # NONE /\ v # ""

\* `a or b' on str-or-None values
Or(a, b) == IF Truthy(a) THEN a ELSE b

\* ------------------------------------------------------- parse_datetime
IsoZ == "2024-05-01T10:00:00Z"
IsoOffset == "2024-05-01T10:00:00+00:00"
IsoNaive == "2024-05-01T10:00:00"
Garbage == "yesterday"

\* str.replace("Z", "+00:00") on the sample strings
ReplaceZ(val) == IF val = IsoZ THEN IsoOffset ELSE val

\* datetime.fromisoformat accepts the explicit-offset and the naive form
FromIsoFormat(s) == IF s \in {IsoOffset, IsoNaive} THEN s ELSE "<raise>"

\* datetime.strptime(val, "%Y-%m-%dT%H:%M:%S")
StrpTime(s) == IF s = IsoNaive THEN s ELSE "<raise>"

parse_datetime(val) ==
  IF ~Truthy(val) THEN NONE
  ELSE IF FromIsoFormat(ReplaceZ(val)) # "<raise>" THEN FromIsoFormat(ReplaceZ(val))
  ELSE IF StrpTime(val) # "<raise>" THEN StrpTime(val)
  ELSE NONE

\* ------------------------------------------------------- download_image
\* index of the last "." piece of a URL, 0 if none
RECURSIVE LastDot(_, _)
LastDot(u, n) == IF n = 0 THEN 0 ELSE IF u[n] = "." THEN n ELSE LastDot(u, n - 1)

\* index of the first "?" piece at or after k, Len+1 if none
RECURSIVE FirstQuery(_, _)
FirstQuery(u, k) ==
  IF k > Len(u) THEN k ELSE IF u[k] = "?" THEN k ELSE FirstQuery(u, k + 1)

RECURSIVE Join(_)
Join(s) == IF s = <<>> THEN "" ELSE Head(s) \o Join(Tail(s))

\* url.split(".")[-1].split("?")[0]
SplitExt(u) ==
  LET tail == SubSeq(u, LastDot(u, Len(u)) + 1, Len(u))
  IN  Join(SubSeq(tail, 1, FirstQuery(tail, 1) - 1))

\* str.lower() on the pieces used as extensions
Lower(s) == IF s = "JPG" THEN "jpg" ELSE IF s = "PNG" THEN "png" ELSE s

Whitelist == {"jpg", "jpeg", "png", "webp"}

ImgExt(u) == IF Lower(SplitExt(u)) \notin Whitelist THEN "jpg" ELSE SplitExt(u)

LocalFilename(id, ext) == LOCAL_IMG_FOLDER \o "/" \o ToString(id) \o "." \o ext

MirrorPath(id, ext) == "/" \o LocalFilename(id, ext)

\* what requests.get(url) and the write of the file can do
ImgOutcomes == {"ok", "network_error", "bad_status", "open_error", "write_error"}

\* The bytes served at a URL are named by the URL itself.
Bytes(u) == Join(u)

\* files: the set of <<file name, content>> pairs on disk, as a function
\* from the names that exist to their content
Exists(files, name) == name \in DOMAIN files

WriteFile(files, name, content) ==
  [n \in DOMAIN files \cup {name} |-> IF n = name THEN content ELSE files[n]]

\* download_image without the test of line 76
download_image_NoExistsTest(url, article_id, files, outcome) ==
  LET name == LocalFilename(article_id, ImgExt(url))
      path == MirrorPath(article_id, ImgExt(url))
  IN  IF url = <<>>
        THEN [path |-> PLACEHOLDER_IMAGE, files |-> files, net |-> 0, branch |-> "no_url"]
      ELSE IF outcome = "ok"
        THEN [path |-> path, files |-> WriteFile(files, name, Bytes(url)),
              net |-> 1, branch |-> "saved"]
      ELSE IF outcome = "write_error"
        THEN [path |-> PLACEHOLDER_IMAGE, files |-> WriteFile(files, name, PARTIAL),
              net |-> 1, branch |-> "write_error"]
      ELSE [path |-> PLACEHOLDER_IMAGE, files |-> files, net |-> 1, branch |-> outcome]

download_image(url, article_id, files, outcome) ==
  LET name == LocalFilename(article_id, ImgExt(url))
      path == MirrorPath(article_id, ImgExt(url))
  IN  IF url = <<>>
        THEN [path |-> PLACEHOLDER_IMAGE, files |-> files, net |-> 0, branch |-> "no_url"]
      ELSE IF Exists(files, name)
        THEN [path |-> path, files |-> files, net |-> 0, branch |-> "hit"]
      ELSE IF outcome = "ok"
        THEN [path |-> path, files |-> WriteFile(files, name, Bytes(url)),
              net |-> 1, branch |-> "saved"]
      ELSE IF outcome = "write_error"
        THEN [path |-> PLACEHOLDER_IMAGE, files |-> WriteFile(files, name, PARTIAL),
              net |-> 1, branch |-> "write_error"]
      ELSE [path |-> PLACEHOLDER_IMAGE, files |-> files, net |-> 1, branch |-> outcome]

\* ------------------------------------------------------ provider values
\* Entries of the provider's "articles" array.  source is "object" (with
\* source_name as its name), "missing" (no such key) or "null".
EntryA ==
  [type |-> "object", title |-> "t1", description |-> "d1", content |-> "c1",
   source |-> "object", source_name |-> "s1", url |-> "http://n/1",
   urlToImage |-> <<"http://i/a", ".", "jpg">>, publishedAt |-> IsoZ]

EntryB ==
  [type |-> "object", title |-> "t2", description |-> NONE, content |-> "",
   source |-> "missing", source_name |-> NONE, url |-> "http://n/2",
   urlToImage |-> <<"http://i/b", ".", "jpg", "?", "w=9">>, publishedAt |-> IsoNaive]

EntryC ==
  [type |-> "object", title |-> NONE, description |-> "d3", content |-> NONE,
   source |-> "object", source_name |-> NONE, url |-> NONE,
   urlToImage |-> <<>>, publishedAt |-> Garbage]

EntryNullSource ==
  [type |-> "object", title |-> "t4", description |-> "d4", content |-> "c4",
   source |-> "null", source_name |-> NONE, url |-> "http://n/4",
   urlToImage |-> <<>>, publishedAt |-> NONE]

WellFormedEntries == {EntryA, EntryB, EntryC}
Entries == WellFormedEntries \cup {EntryNullSource}

EntryLists == UNION {[1..n -> Entries] : n \in 0..MaxEntries}

\* What the headlines request can come back with: a failure at transport,
\* HTTP-status or JSON level, or a decoded JSON value.
EmptyJson == [type |-> "object", articles |-> "missing", list |-> <<>>]

\* The provider's stories, newest first; a response lists a run of at most
\* MaxEntries consecutive ones, so two requests may see different stories
\* in the same position.
Timeline == <<EntryA, EntryB, EntryC, EntryNullSource>>

Windows(l) ==
  UNION {{SubSeq(l, k, k + n - 1) : k \in 1..(Len(l) + 1 - n)} : n \in 0..MaxEntries}

ProviderResults(lists) ==
  {[status |-> s, json |-> EmptyJson] : s \in {"transport_error", "http_error", "json_error"}}
  \cup {[status |-> "ok", json |-> [type |-> "array", articles |-> "missing", list |-> <<>>]]}
  \cup {[status |-> "ok", json |-> [type |-> "object", articles |-> a, list |-> <<>>]] :
          a \in {"missing", "null"}}
  \cup {[status |-> "ok", json |-> [type |-> "object", articles |-> "list", list |-> l]] :
          l \in lists}

\* lines 97-103: data is the decoded value, or {} after any exception
Data(r) == IF r.status = "ok" THEN r.json ELSE EmptyJson

\* line 105 raises when data is not a dict; line 108 raises when the value
\* of "articles" is null (enumerate(None))
DataFaults(d) == d.type # "object" \/ d.articles = "null"

\* data.get("articles", [])
ArticlesList(d) == IF d.articles = "list" THEN d.list ELSE <<>>

\* line 114 raises when "source" is null: None has no get
EntryFaults(a) == a.type # "object" \/ a.source = "null"

\* lines 109-118, the record before image_url is set
BuildArticle(i, a) ==
  [id |-> i,
   title |-> Or(a.title, "No title"),
   description |-> Or(a.description, ""),
   content |-> Or(a.content, ""),
   source_name |-> Or(IF a.source = "object" THEN a.source_name ELSE NONE, ""),
   source_url |-> Or(a.url, SENTINEL_URL),
   published_at |-> parse_datetime(a.publishedAt),
   full_text |-> NONE]

WithImage(article, path) ==
  [f \in DOMAIN article \cup {"image_url"} |->
     IF f = "image_url" THEN path ELSE article[f]]

\* lines 126-136
PlaceholderArticle ==
  [id |-> 1,
   title |-> "No articles available right now",
   description |-> "Please check back later.",
   content |-> "",
   source_name |-> "",
   source_url |-> SENTINEL_URL,
   image_url |-> PLACEHOLDER_IMAGE,
   published_at |-> NONE,
   full_text |-> ""]

\* lines 125-137 without the synthesized record
FetchResult_NoPlaceholder(out) == out

\* lines 125-137
FetchResult(out) == IF out = <<>> THEN <<PlaceholderArticle>> ELSE out

\* line 122 with > for >=
LoopBreaks_Late(out, page_size) == Len(out) > page_size

\* line 122
LoopBreaks(out, page_size) == Len(out) >= page_size

\* line 120
ImageFor(a, i, files, outcome) ==
  IF a.urlToImage # <<>>
    THEN download_image(a.urlToImage, i, files, outcome)
    ELSE [path |-> PLACEHOLDER_IMAGE, files |-> files, net |-> 0, branch |-> "no_image"]

\* lines 108-123 from iteration i on; os[i] is what the image fetch of
\* iteration i does
RECURSIVE Loop(_, _, _, _, _, _)
Loop(articles_list, i, out, files, os, page_size) ==
  IF i > Len(articles_list)
    THEN [out |-> out, files |-> files, raised |-> FALSE]
  ELSE IF EntryFaults(articles_list[i])
    THEN [out |-> out, files |-> files, raised |-> TRUE]
  ELSE LET a == articles_list[i]
           r == ImageFor(a, i, files, os[i])
           out2 == Append(out, WithImage(BuildArticle(i, a), r.path))
       IN  IF LoopBreaks(out2, page_size)
             THEN [out |-> out2, files |-> r.files, raised |-> FALSE]
             ELSE Loop(articles_list, i + 1, out2, r.files, os, page_size)

\* lines 90-137; res is what the headlines request comes back with
fetch_headlines(key, page_size, res, files, os) ==
  IF ~key
    THEN [out |-> <<>>, files |-> files, raised |-> FALSE]
  ELSE IF DataFaults(Data(res))
    THEN [out |-> <<>>, files |-> files, raised |-> TRUE]
  ELSE LET l == Loop(ArticlesList(Data(res)), 1, <<>>, files, os, page_size)
       IN  [out |-> IF l.raised THEN <<>> ELSE FetchResult(l.out),
            files |-> l.files, raised |-> l.raised]

\* ------------------------------------------ enrich_article_with_newspaper
Bodies == {"", "body1"}

\* the page fetch (error, a non-200 status, 200) and the extraction
\* (raises, or yields Article.text)
EnrichOutcomes ==
  {[fetch |-> f, parse |-> "ok", text |-> ""] : f \in {"network_error", "bad_status"}}
  \cup {[fetch |-> "ok", parse |-> "raise", text |-> ""]}
  \cup {[fetch |-> "ok", parse |-> "ok", text |-> b] : b \in Bodies}

\* enrich_article_with_newspaper without the status test of lines 148-149
enrich_NoStatusTest(article, o) ==
  IF ~Truthy(article.source_url) \/ article.source_url = SENTINEL_URL
    THEN [article |-> article, net |-> 0, branch |-> "no_url"]
  ELSE IF o.fetch = "network_error"
    THEN [article |-> article, net |-> 1, branch |-> o.fetch]
  ELSE IF o.parse # "ok"
    THEN [article |-> article, net |-> 1, branch |-> "extract_error"]
  ELSE [article |-> [article EXCEPT !.full_text =
                       Or(o.text, Or(article.content, article.description))],
        net |-> 1, branch |-> "ok"]

enrich_article_with_newspaper(article, o) ==
  IF ~Truthy(article.source_url) \/ article.source_url = SENTINEL_URL
    THEN [article |-> article, net |-> 0, branch |-> "no_url"]
  ELSE IF o.fetch # "ok"
    THEN [article |-> article, net |-> 1, branch |-> o.fetch]
  ELSE IF o.parse # "ok"
    THEN [article |-> article, net |-> 1, branch |-> "extract_error"]
  ELSE [article |-> [article EXCEPT !.full_text =
                       Or(o.text, Or(article.content, article.description))],
        net |-> 1, branch |-> "ok"]

\* line 189: position of the first record with this id, 0 if none
RECURSIVE FindFrom(_, _, _)
FindFrom(articles, article_id, k) ==
  IF k > Len(articles) THEN 0
  ELSE IF articles[k].id = article_id THEN k
  ELSE FindFrom(articles, article_id, k + 1)

\* line 189 with the first record as the default instead of None
FindArticle_DefaultFirst(articles, article_id) ==
  IF FindFrom(articles, article_id, 1) = 0 /\ articles # <<>>
    THEN 1
    ELSE FindFrom(articles, article_id, 1)

FindArticle(articles, article_id) == FindFrom(articles, article_id, 1)

\* ------------------------------------------------------------------ state
VARIABLES
  NEWSAPI_KEY,      \* TRUE iff the credential is configured (line 18)
  PAGE_SIZE,        \* line 21
  cached_articles,  \* line 42
  files,            \* the image folder: file name -> content
  pc,               \* where each request thread stands
  loc,              \* each thread's local variables
  hist,             \* whether fetch_headlines was ever called, the cache ever assigned
  requests,         \* number of requests received so far
  ev,               \* the step just taken and what it answered
  mirror,           \* the two-call scenario of download_image
  call              \* one call of fetch_headlines on a drawn provider response

vars == <<NEWSAPI_KEY, PAGE_SIZE, cached_articles, files, pc, loc, hist, requests, ev, mirror, call>>

\* How a request ends.  The list page renders cached_articles as it is when
\* the step ends (line 184); the detail page renders the record (line 194).
NoResp == "none"
ListResp == "list"
DetailResp == "detail"
NotFound == "notfound"
Fault == "fault"

\* The step just taken: the operation, the id asked for, the branch taken,
\* whether it did network I/O, how the request ended, and for a call of
\* fetch_headlines the provider entries it was given.
Ev(op, id, branch, net, resp, entries) ==
  [op |-> op, id |-> id, branch |-> branch, net |-> net, resp |-> resp,
   entries |-> entries]

Ev0 == Ev("start", 0, "", 0, NoResp, <<>>)

\* k: position in cached_articles of the record `art' refers to;
\* orphan: the record `art' refers to once cached_articles was rebound to
\* another list (then <<record>>, else <<>>)
Loc0 == [k |-> 0, orphan |-> <<>>]

\* url, id: the arguments of both calls; calls: how many were made; net: how
\* many of them fetched from the network; paths, branches: what each
\* returned and the branch it took
Mirror0 == [url |-> <<>>, id |-> 0, calls |-> 0, net |-> 0, paths |-> <<>>, branches |-> <<>>]

\* res: what the headlines request comes back with; returned, raised, out:
\* whether fetch_headlines has returned or raised, and the list returned
Call0 == [res |-> [status |-> "transport_error", json |-> EmptyJson],
          returned |-> FALSE, raised |-> FALSE, out |-> <<>>]

NoFiles == [n \in {} |-> ""]

Init ==
  /\ NEWSAPI_KEY \in BOOLEAN
  /\ PAGE_SIZE \in 0..MaxPageSize
  /\ cached_articles = <<>>
  /\ files = NoFiles
  /\ pc = [t \in Threads |-> "idle"]
  /\ loc = [t \in Threads |-> Loc0]
  /\ hist = [fetched |-> FALSE, assigned |-> FALSE]
  /\ requests = 0
  /\ ev = Ev0
  /\ mirror = Mirror0
  /\ call = Call0

\* A request is served by the first thread that is free.
FirstFree(t) == pc[t] = "idle" /\ \A u \in Threads : u < t => pc[u] # "idle"

\* ------------------------------------------------------------------ GET /
\* index without the test of line 182: every request fetches
Index_NoCacheTest(t) ==
  /\ FirstFree(t)
  /\ requests < MaxRequests
  /\ requests' = requests + 1
  /\ ev' = Ev("index", 0, "empty", 0, NoResp, <<>>)
  /\ pc' = [pc EXCEPT ![t] = "fetch"]
  /\ UNCHANGED <<NEWSAPI_KEY, PAGE_SIZE, cached_articles, files, loc, hist, mirror, call>>

\* line 182: the test of the cache; a hit renders it (line 184)
Index(t) ==
  /\ FirstFree(t)
  /\ requests < MaxRequests
  /\ requests' = requests + 1
  /\ IF cached_articles # <<>>
       THEN /\ ev' = Ev("index", 0, "cached", 0, ListResp, <<>>)
            /\ UNCHANGED pc
       ELSE /\ ev' = Ev("index", 0, "empty", 0, NoResp, <<>>)
            /\ pc' = [pc EXCEPT ![t] = "fetch"]
  /\ UNCHANGED <<NEWSAPI_KEY, PAGE_SIZE, cached_articles, files, loc, hist, mirror, call>>

\* What the image fetches of one call of fetch_headlines can do, one outcome
\* for each entry: only the entries the loop reaches that have an image URL
\* fetch anything.  A bad status and a failing open() leave what a network
\* error leaves (no file, the placeholder), so one of the three stands for
\* them here.
LoopImgOutcomes == {"ok", "network_error", "write_error"}

ImgOutcomeSeqs(articles_list, page_size) ==
  {os \in [1..Len(articles_list) -> LoopImgOutcomes] :
     \A i \in 1..Len(articles_list) :
       (articles_list[i].urlToImage = <<>> \/ (i > page_size /\ i > 1)) => os[i] = "ok"}

\* lines 183-184: fetch_headlines(), the assignment of the list it returns
\* and the rendering.  The call reads and writes only the image folder and
\* its own list, so it is taken as one step between the test of line 182
\* and the assignment.  A thread inside article() keeps its reference to a
\* record of the list that was bound before; an exception leaves the
\* handler and the request ends with a server error.
FetchCall(t) ==
  /\ pc[t] = "fetch"
  /\ \E res \in ProviderResults(Windows(Timeline)) :
     \E os \in ImgOutcomeSeqs(ArticlesList(Data(res)), PAGE_SIZE) :
       LET r == fetch_headlines(NEWSAPI_KEY, PAGE_SIZE, res, files, os)
       IN  /\ files' = r.files
           /\ pc' = [pc EXCEPT ![t] = "idle"]
           /\ IF r.raised
                THEN /\ hist' = [hist EXCEPT !.fetched = TRUE]
                     /\ ev' = Ev("fetch", 0, res.status, 1, Fault, <<>>)
                     /\ UNCHANGED <<cached_articles, loc>>
                ELSE /\ cached_articles' = r.out
                     /\ hist' = [fetched |-> TRUE, assigned |-> TRUE]
                     /\ loc' = [u \in Threads |->
                                  IF pc[u] = "enrich" /\ loc[u].orphan = <<>>
                                    THEN [loc[u] EXCEPT !.orphan = <<cached_articles[loc[u].k]>>]
                                    ELSE loc[u]]
                     /\ ev' = Ev("fetch", 0, IF NEWSAPI_KEY THEN res.status ELSE "no_key",
                                 IF NEWSAPI_KEY THEN 1 ELSE 0, ListResp,
                                 IF NEWSAPI_KEY THEN ArticlesList(Data(res)) ELSE <<>>)
  /\ UNCHANGED <<NEWSAPI_KEY, PAGE_SIZE, requests, mirror, call>>

\* --------------------------------------------------- GET /article/<id>
\* lines 189-192, and line 194 when no enrichment is needed
Article(t, article_id) ==
  /\ FirstFree(t)
  /\ requests < MaxRequests
  /\ requests' = requests + 1
  /\ LET k == FindArticle(cached_articles, article_id)
     IN  IF k = 0
           THEN /\ ev' = Ev("article", article_id, "abort", 0, NotFound, <<>>)
                /\ UNCHANGED <<pc, loc>>
         ELSE IF Truthy(cached_articles[k].full_text)
           THEN /\ ev' = Ev("article", article_id, "has_text", 0, DetailResp, <<>>)
                /\ UNCHANGED <<pc, loc>>
         ELSE /\ ev' = Ev("article", article_id, "needs_text", 0, NoResp, <<>>)
              /\ pc' = [pc EXCEPT ![t] = "enrich"]
              /\ loc' = [loc EXCEPT ![t] = [Loc0 EXCEPT !.k = k]]
  /\ UNCHANGED <<NEWSAPI_KEY, PAGE_SIZE, cached_articles, files, hist, mirror, call>>

\* what the page fetch and the extraction did, as the event records it
EnrichLabel(o) ==
  IF o.fetch # "ok" THEN o.fetch ELSE IF o.parse # "ok" THEN "extract_error" ELSE "ok"

\* lines 193-194: enrich_article_with_newspaper(art) and the rendering
Enrich(t) ==
  /\ pc[t] = "enrich"
  /\ \E o \in EnrichOutcomes :
       LET held == loc[t].orphan = <<>>
           art == IF held THEN cached_articles[loc[t].k] ELSE loc[t].orphan[1]
           r == enrich_article_with_newspaper(art, o)
       IN  /\ cached_articles' =
                IF held THEN [cached_articles EXCEPT ![loc[t].k] = r.article]
                ELSE cached_articles
           /\ ev' = Ev("enrich", art.id, EnrichLabel(o), r.net, DetailResp, <<>>)
  /\ pc' = [pc EXCEPT ![t] = "idle"]
  /\ loc' = [loc EXCEPT ![t] = Loc0]
  /\ UNCHANGED <<NEWSAPI_KEY, PAGE_SIZE, files, hist, requests, mirror, call>>

\* the ids requested: every id in the cache and one that is in no record
ArticleIds == 1..(Len(cached_articles) + 1)

Next ==
  \/ \E t \in Threads : Index(t)
  \/ \E t \in Threads : FetchCall(t)
  \/ \E t \in Threads : \E id \in ArticleIds : Article(t, id)
  \/ \E t \in Threads : Enrich(t)

Spec == Init /\ [][Next]_vars

\* ------------------------------------- download_image called twice
\* Image URLs with a whitelisted extension, an upper-case one, one outside
\* the whitelist, none at all, and a query string with a dot in it; the
\* empty sequence is the falsy URL.
MirrorUrls ==
  {<<"http://i/a", ".", "jpg">>,
   <<"http://i/b", ".", "jpg", "?", "w=9">>,
   <<"http://i/c", ".", "PNG">>,
   <<"http://i/d", ".", "gif">>,
   <<"http://i/e">>,
   <<"http://i/f", ".", "webp", "?", "v=1", ".", "2">>,
   <<>>}

\* The folder is empty, or holds a file left by an earlier run.
OldFiles == [n \in {LocalFilename(1, "jpg")} |-> "<old bytes>"]

InitMirror ==
  /\ NEWSAPI_KEY = TRUE
  /\ PAGE_SIZE = 1
  /\ cached_articles = <<>>
  /\ files \in {NoFiles, OldFiles}
  /\ pc = [t \in Threads |-> "idle"]
  /\ loc = [t \in Threads |-> Loc0]
  /\ hist = [fetched |-> FALSE, assigned |-> FALSE]
  /\ requests = 0
  /\ ev = Ev0
  /\ mirror \in {[Mirror0 EXCEPT !.url = u, !.id = i] : u \in MirrorUrls, i \in 1..MaxMirrorId}
  /\ call = Call0

MirrorCall ==
  /\ mirror.calls < 2
  /\ \E o \in ImgOutcomes :
       LET r == download_image(mirror.url, mirror.id, files, o)
       IN  /\ files' = r.files
           /\ mirror' = [mirror EXCEPT !.calls = @ + 1,
                                       !.net = @ + r.net,
                                       !.paths = Append(@, r.path),
                                       !.branches = Append(@, r.branch)]
  /\ UNCHANGED <<NEWSAPI_KEY, PAGE_SIZE, cached_articles, pc, loc, hist, requests, ev, call>>

NextMirror == MirrorCall

SpecMirror == InitMirror /\ [][NextMirror]_vars

\* ------------------------------------------ fetch_headlines called once
InitFetch ==
  /\ NEWSAPI_KEY \in BOOLEAN
  /\ PAGE_SIZE \in 0..MaxPageSize
  /\ cached_articles = <<>>
  /\ files \in {NoFiles, OldFiles}
  /\ pc = [t \in Threads |-> "idle"]
  /\ loc = [t \in Threads |-> Loc0]
  /\ hist = [fetched |-> FALSE, assigned |-> FALSE]
  /\ requests = 0
  /\ ev = Ev0
  /\ mirror = Mirror0
  /\ call \in {[Call0 EXCEPT !.res = r] : r \in ProviderResults(EntryLists)}

FetchOnce ==
  /\ ~call.returned /\ ~call.raised
  /\ \E os \in ImgOutcomeSeqs(ArticlesList(Data(call.res)), PAGE_SIZE) :
       LET r == fetch_headlines(NEWSAPI_KEY, PAGE_SIZE, call.res, files, os)
       IN  /\ files' = r.files
           /\ call' = [call EXCEPT !.returned = ~r.raised, !.raised = r.raised, !.out = r.out]
  /\ UNCHANGED <<NEWSAPI_KEY, PAGE_SIZE, cached_articles, pc, loc, hist, requests, ev, mirror>>

NextFetch == FetchOnce

SpecFetch == InitFetch /\ [][NextFetch]_vars

\* ================================================================ claims
\* steps of the request threads
FetchStep(t) == pc[t] = "fetch" /\ pc'[t] = "idle"
EnrichStep(t) == pc[t] = "enrich" /\ pc'[t] = "idle"
ArticleStep == requests' = requests + 1 /\ ev'.op = "article"
Rebinds == \E t \in Threads : FetchStep(t) /\ ev'.resp = ListResp

NoArticlesTitle == "No articles available right now"

\* C1: with no credential every GET / renders exactly one record, the
\* placeholder article; whatever happens upstream the rendered list is
\* never empty.
C1_RenderedListNeverEmpty ==
  ev.resp = ListResp =>
    /\ cached_articles # <<>>
    /\ ~NEWSAPI_KEY => /\ Len(cached_articles) = 1
                       /\ cached_articles[1].title = NoArticlesTitle

\* C2 as stated: fetch_headlines is called by the first request that sees
\* the cache empty and by no other, and cached_articles is assigned once.
C2_PopulatedExactlyOnce ==
  [][\A t \in Threads :
       /\ FetchStep(t) => ~hist.fetched
       /\ (FetchStep(t) /\ ev'.resp = ListResp) => ~hist.assigned]_vars

\* no request that saw the cache empty is still on its way, and the cache
\* is not empty
Settled == cached_articles # <<>> /\ \A t \in Threads : pc[t] # "fetch"

\* the same records but for full_text
SameRecords(a, b) ==
  /\ Len(a) = Len(b)
  /\ \A k \in 1..Len(a) : [a[k] EXCEPT !.full_text = NONE] = [b[k] EXCEPT !.full_text = NONE]

\* C2 amended: only a request that saw the cache empty goes on to call
\* fetch_headlines; once the cache is not empty and no such request is
\* still on its way, no request calls fetch_headlines or assigns
\* cached_articles again.
C2_PopulatedOnceSettled ==
  [][/\ \A t \in Threads : (pc[t] = "idle" /\ pc'[t] = "fetch") => cached_articles = <<>>
     /\ Settled => /\ Settled'
                   /\ \A t \in Threads : ~FetchStep(t)
                   /\ hist' = hist
                   /\ SameRecords(cached_articles, cached_articles')]_vars

C2_Witness ==
  /\ Settled
  /\ hist.assigned
  /\ ev.op = "index" /\ ev.branch = "cached"
  /\ requests >= 2

\* C3: full_text of a cached record changes at most once, from None to a
\* populated text, and is never modified, cleared or emptied afterwards.
C3_FullTextSetOnce ==
  [][~Rebinds =>
       \A k \in 1..Len(cached_articles) :
         /\ cached_articles[k].full_text # NONE =>
              cached_articles'[k].full_text = cached_articles[k].full_text
         /\ cached_articles'[k].full_text # cached_articles[k].full_text =>
              Truthy(cached_articles'[k].full_text)]_vars

\* C7: a GET /article/<id> whose id is in no cached record (the cache may
\* be empty) answers not-found, fetches no page and leaves the cache, every
\* record, the image folder and every thread where they were.
NoMatch(id) == \A k \in 1..Len(cached_articles) : cached_articles[k].id # id

C7_UnknownIdNotFound ==
  [][(ArticleStep /\ NoMatch(ev'.id)) =>
       /\ ev'.resp = NotFound
       /\ ev'.net = 0
       /\ cached_articles' = cached_articles
       /\ pc' = pc /\ loc' = loc
       /\ files' = files]_vars

C7_Witness ==
  /\ ev.op = "article" /\ ev.resp = NotFound
  /\ cached_articles # <<>>
  /\ \A k \in 1..Len(cached_articles) : cached_articles[k].id # ev.id

\* the record thread t is about to enrich
Held(t) == loc[t].orphan = <<>>
ArtOf(t) == IF Held(t) THEN cached_articles[loc[t].k] ELSE loc[t].orphan[1]
NoSourceUrl(t) == ArtOf(t).source_url \in {NONE, "", SENTINEL_URL}

\* C8: enrich leaves the record as it was when source_url is absent or "#"
\* (and then does no network I/O), when the page fetch raises or answers a
\* status other than 200, and when the extraction raises; the only write is
\* to full_text, after a fetch and an extraction that both succeeded.
C8_EnrichFailureKeepsRecord ==
  [][\A t \in Threads :
       EnrichStep(t) =>
         /\ NoSourceUrl(t) => ev'.net = 0
         /\ (NoSourceUrl(t) \/ ev'.branch # "ok") => cached_articles' = cached_articles
         /\ cached_articles' # cached_articles =>
              /\ Held(t)
              /\ ev'.branch = "ok"
              /\ SameRecords(cached_articles, cached_articles')
              /\ \A k \in 1..Len(cached_articles) :
                   k # loc[t].k => cached_articles'[k] = cached_articles[k]]_vars

C8_Witness ==
  /\ ev.op = "enrich"
  /\ ev.branch \in {"network_error", "bad_status", "extract_error"}
  /\ ev.net = 1
  /\ \E k \in 1..Len(cached_articles) :
       /\ cached_articles[k].id = ev.id
       /\ cached_articles[k].source_url # SENTINEL_URL
       /\ cached_articles[k].full_text = NONE

\* C9: whatever JSON value the provider answers with a success status, and
\* whatever the image and page fetches do, no request ends with an
\* unhandled exception.
C9_NoUnhandledFault == ev.resp # Fault

\* C10: after fetch_headlines returns, every record with a mirrored image
\* path points at a file that holds the bytes of that record's own image URL.
C10_MirroredFileIsOwnImage ==
  (ev.op = "fetch" /\ ev.resp = ListResp) =>
    \A k \in 1..Len(cached_articles) :
      cached_articles[k].image_url # PLACEHOLDER_IMAGE =>
        /\ k <= Len(ev.entries)
        /\ LET url == ev.entries[k].urlToImage
               name == LocalFilename(k, ImgExt(url))
           IN  /\ cached_articles[k].image_url = MirrorPath(k, ImgExt(url))
               /\ Exists(files, name)
               /\ files[name] = Bytes(url)

\* ------------------------------------------------- claims on SpecMirror
FirstCallLeftCopy == mirror.branches[1] \in {"saved", "hit"}

\* C4 as stated: whatever the first call's fetch did, two calls with the
\* same id and URL fetch at most once, and the second returns the first's
\* path from the existence test alone.
C4_IdempotentAlways ==
  (mirror.calls = 2 /\ mirror.url # <<>>) =>
    /\ mirror.net <= 1
    /\ mirror.paths[2] = mirror.paths[1]
    /\ mirror.branches[2] = "hit"

\* C4 amended: when the first call finds the file or fetches it with status
\* 200 and writes it, the two calls fetch at most once and the second
\* returns the first's path from the existence test alone.
C4_IdempotentAfterCopy ==
  (mirror.calls = 2 /\ mirror.url # <<>> /\ FirstCallLeftCopy) =>
    /\ mirror.net <= 1
    /\ mirror.paths[2] = mirror.paths[1]
    /\ mirror.paths[2] # PLACEHOLDER_IMAGE
    /\ mirror.branches[2] = "hit"

C4_Witness ==
  /\ mirror.calls = 2
  /\ mirror.url # <<>>
  /\ mirror.branches = <<"saved", "hit">>
  /\ mirror.net = 1

\* -------------------------------------------------- claims on SpecFetch
CallDone == call.returned \/ call.raised
CallEntries == call.res.json.list

WellFormed(a) == a.type = "object" /\ a.source \in {"object", "missing"}

ListOfWellFormed ==
  /\ call.res.status = "ok"
  /\ call.res.json.type = "object"
  /\ call.res.json.articles = "list"
  /\ \A i \in 1..Len(CallEntries) : WellFormed(CallEntries[i])

Absent(v) == v \in {NONE, ""}

\* record rec is the one built from entry a in position k
BuiltFrom(rec, k, a) ==
  /\ rec.id = k
  /\ rec.title = IF Absent(a.title) THEN "No title" ELSE a.title
  /\ rec.description = IF Absent(a.description) THEN "" ELSE a.description
  /\ rec.content = IF Absent(a.content) THEN "" ELSE a.content
  /\ rec.source_url = IF Absent(a.url) THEN "#" ELSE a.url
  /\ rec.full_text = NONE
  /\ a.urlToImage = <<>> => rec.image_url = PLACEHOLDER_IMAGE

FirstPageSize ==
  /\ call.returned
  /\ Len(call.out) = PAGE_SIZE
  /\ \A k \in 1..PAGE_SIZE : BuiltFrom(call.out[k], k, CallEntries[k])

\* C5 as stated: for every page_size and N >= page_size well-formed
\* entries, fetch returns page_size records, ids 1..page_size, the k-th
\* built from the k-th entry.
C5_FirstPageSizeAlways ==
  (CallDone /\ NEWSAPI_KEY /\ ListOfWellFormed /\ Len(CallEntries) >= PAGE_SIZE)
    => FirstPageSize

\* C5 amended: the same for every page_size >= 1.
C5_FirstPageSizePositive ==
  (CallDone /\ NEWSAPI_KEY /\ ListOfWellFormed /\ Len(CallEntries) >= PAGE_SIZE
     /\ PAGE_SIZE >= 1)
    => FirstPageSize

C5_Witness ==
  /\ call.returned /\ NEWSAPI_KEY /\ ListOfWellFormed
  /\ PAGE_SIZE >= 1
  /\ Len(CallEntries) > PAGE_SIZE
  /\ Len(call.out) = PAGE_SIZE
  /\ call.out[1].title # CallEntries[2].title

ZeroEntriesOrFailed ==
  \/ call.res.status \in {"transport_error", "http_error", "json_error"}
  \/ /\ call.res.status = "ok"
     /\ call.res.json.type = "object"
     /\ call.res.json.articles \in {"list", "missing"}
     /\ call.res.json.list = <<>>

\* C6: with a credential, a response with zero entries and a request that
\* fails at transport, status or JSON level both make fetch return exactly
\* the placeholder record.
C6_PlaceholderOnEmptyOrFailure ==
  (CallDone /\ NEWSAPI_KEY /\ ZeroEntriesOrFailed) =>
    /\ call.returned
    /\ Len(call.out) = 1
    /\ call.out[1].id = 1
    /\ call.out[1].title = NoArticlesTitle
    /\ call.out[1].description = "Please check back later."
    /\ call.out[1].image_url = "/static/images/placeholder.jpg"
    /\ call.out[1].published_at = NONE
    /\ call.out[1].full_text = ""

C6_Witness ==
  /\ call.returned /\ NEWSAPI_KEY
  /\ call.res.status = "json_error"
  /\ Len(call.out) = 1
  /\ call.out[1].title = NoArticlesTitle

====
